---- MODULE Spec2Model ----
(***************************************************************************)
(* Document-Vectorization-Service: the ingestion and retrieval pipeline.   *)
(*                                                                         *)
(* A text is a sequence of runs [c |-> character, n |-> repetitions]: the  *)
(* chunker only looks at lengths, at "\n\n" boundaries and at whether a    *)
(* paragraph is all whitespace, so a run of n equal non-blank characters   *)
(* stands for n characters.  Newline and space runs always have n = 1.     *)
(***************************************************************************)
EXTENDS Integers, Sequences, FiniteSets, TLC

VARIABLES
    \* chunking.py: one call of chunk_text(text, chunk_size)
    text, chunk_size, chunks, chunked,
    \* chatbot_api.py: the vector store of one user (collection user_<name>_docs),
    \* the user's folder list, and the last request with its outcome
    collExists, store, folders, last,
    \* how the installed vector engine treats an add() of an id it already holds
    engineDup,
    \* the number of requests handled so far that write to the store
    nops,
    \* query_documents.py: the database the command line queries, as the answers
    \* of its collections to the query
    qdb,
    \* embedding_function.py: the last call of the embedding function (the text
    \* sent, the remote response, the result) and the results of the calls whose
    \* remote call failed
    embSent, embRemote, embResult, embFailed,
    \* process_document.py: one call of process_urls_batch (the urls handed in,
    \* what the web and the embedding service do for each of them, the list
    \* returned)
    batch_urls, batch_web, results,
    \* web_content_fetcher.py: one call of fetch_web_content (its arguments, the
    \* page and the linked pages the web serves, what the call did)
    fetch_args, page, fetched,
    \* chatbot_api.py: the background tasks POST /process_url added, in the
    \* order of the requests
    tasks,
    \* process_document.py: the calls of process_document that run side by side
    writers

chunkVars == <<text, chunk_size, chunks, chunked>>

storeVars == <<collExists, store, folders, engineDup, nops>>

embedVars == <<embSent, embRemote, embResult, embFailed>>

batchVars == <<batch_urls, batch_web, results>>

webVars == <<fetch_args, page, fetched>>

procVars == <<tasks, writers>>

vars == <<text, chunk_size, chunks, chunked,
          collExists, store, folders, last, engineDup, nops,
          qdb, embSent, embRemote, embResult, embFailed,
          batch_urls, batch_web, results,
          fetch_args, page, fetched, tasks, writers>>

-----------------------------------------------------------------------------
(* Bounds of the model *)

MaxTextLen == 6
MaxChunkSize == 4
MaxOps == 2
MaxColls == 2
MaxUrls == 3
MaxEntries == 3
MaxDocs == 3
EMBEDDING_DIMENSION == 3
DistanceSteps == 2
MaxParagraphs == 4
MaxPageLinks == 3
MaxFollow == 3
MaxTasks == 2
MaxWriters == 2

\* the outcome of the last request: the handler, its answer, the chunk ids it
\* generated and how many of them the collection already held, the number of
\* chunks it retrieved, the mode asked for and the calls it made to the
\* generation service, the number of ids it handed to collection.delete, the
\* documents it listed; for query_collection also the collection asked for,
\* the ranked results and the calls and sleeps of generate_response_gemini in
\* their order
NoCall ==
    [op |-> "none", status |-> "none", ids |-> <<>>, existing |-> 0,
     retrieved |-> 0, mode |-> "", genCalls |-> 0, deleted |-> 0,
     documents |-> <<>>, scope |-> "", results |-> <<>>, genLog |-> <<>>]

StoreIdle ==
    /\ collExists = FALSE
    /\ store = <<>>
    /\ folders = {}
    /\ engineDup = "skip"
    /\ nops = 0

QueryIdle == qdb = <<>>

\* the result of the embedding function: a vector v / sqrt(n2), or the
\* exception it raised
NoResult == [out |-> "none", v |-> <<>>, n2 |-> 1]
Raised == [out |-> "raised", v |-> <<>>, n2 |-> 1]

EmbedIdle ==
    /\ embSent = <<>>
    /\ embRemote = [kind |-> "none", raw |-> <<>>]
    /\ embResult = NoResult
    /\ embFailed = {}

\* no batch of urls was handed in
BatchIdle ==
    /\ batch_urls = <<>>
    /\ batch_web = <<>>
    /\ results = <<>>

\* fetch_web_content was not called
NotFetched ==
    [out |-> "none", content_type |-> "", content |-> <<>>, metadata |-> <<>>,
     requests |-> <<>>]

WebIdle ==
    /\ fetch_args = [follow_links |-> FALSE, max_links |-> 0]
    /\ page = [kind |-> "none", important_links |-> <<>>, linked |-> <<>>]
    /\ fetched = NotFetched

\* no background task, no call of process_document under way
ProcIdle ==
    /\ tasks = <<>>
    /\ writers = <<>>

\* the chunker at rest, while another part of the system is looked at
ChunkIdle ==
    /\ text = <<>>
    /\ chunk_size = 1
    /\ chunks = <<>>
    /\ chunked = FALSE

-----------------------------------------------------------------------------
(* Texts *)

NL == [c |-> "nl", n |-> 1]
SP == [c |-> "sp", n |-> 1]
Run(ch, k) == [c |-> ch, n |-> k]

RECURSIVE SumLen(_, _)
SumLen(s, i) == IF i > Len(s) THEN 0 ELSE s[i].n + SumLen(s, i + 1)

\* len(text)
TextLen(s) == SumLen(s, 1)

\* str.strip() removes leading and trailing whitespace: the result is empty
\* exactly when every character is whitespace
IsBlank(p) == \A i \in 1..Len(p) : p[i].c \in {"nl", "sp"}

\* text.split('\n\n'): leftmost, non-overlapping occurrences of the separator
RECURSIVE SplitFrom(_, _, _, _)
SplitFrom(s, i, cur, acc) ==
    IF i > Len(s) THEN Append(acc, cur)
    ELSE IF i < Len(s) /\ s[i] = NL /\ s[i + 1] = NL
         THEN SplitFrom(s, i + 2, <<>>, Append(acc, cur))
         ELSE SplitFrom(s, i + 1, Append(cur, s[i]), acc)

SplitParagraphs(s) == SplitFrom(s, 1, <<>>, <<>>)

\* '\n\n'.join(current_chunk)
RECURSIVE JoinFrom(_, _)
JoinFrom(ps, i) ==
    IF i > Len(ps) THEN <<>>
    ELSE IF i = Len(ps) THEN ps[i]
    ELSE ps[i] \o <<NL, NL>> \o JoinFrom(ps, i + 1)

JoinParagraphs(ps) == JoinFrom(ps, 1)

-----------------------------------------------------------------------------
(* chunking.py: chunk_text *)

\* the loop over the paragraphs, from paragraph i on
RECURSIVE ChunkLoop(_, _, _, _, _, _)
ChunkLoop(paragraphs, i, size, acc, current_chunk, current_size) ==
    IF i > Len(paragraphs)
    THEN IF current_chunk # <<>>
         THEN Append(acc, JoinParagraphs(current_chunk))
         ELSE acc
    ELSE LET paragraph == paragraphs[i] IN
         IF IsBlank(paragraph)
         THEN ChunkLoop(paragraphs, i + 1, size, acc, current_chunk, current_size)
         ELSE IF current_size + TextLen(paragraph) > size /\ current_chunk # <<>>
              THEN ChunkLoop(paragraphs, i + 1, size,
                             Append(acc, JoinParagraphs(current_chunk)),
                             <<paragraph>>, TextLen(paragraph))
              ELSE ChunkLoop(paragraphs, i + 1, size, acc,
                             Append(current_chunk, paragraph),
                             current_size + TextLen(paragraph))

\* mutant: the size test looks at the running size alone, before the paragraph
\* is counted
RECURSIVE ChunkLoopLate(_, _, _, _, _, _)
ChunkLoopLate(paragraphs, i, size, acc, current_chunk, current_size) ==
    IF i > Len(paragraphs)
    THEN IF current_chunk # <<>>
         THEN Append(acc, JoinParagraphs(current_chunk))
         ELSE acc
    ELSE LET paragraph == paragraphs[i] IN
         IF IsBlank(paragraph)
         THEN ChunkLoopLate(paragraphs, i + 1, size, acc, current_chunk, current_size)
         ELSE IF current_size > size /\ current_chunk # <<>>
              THEN ChunkLoopLate(paragraphs, i + 1, size,
                                 Append(acc, JoinParagraphs(current_chunk)),
                                 <<paragraph>>, TextLen(paragraph))
              ELSE ChunkLoopLate(paragraphs, i + 1, size, acc,
                                 Append(current_chunk, paragraph),
                                 current_size + TextLen(paragraph))

chunk_text_late(t, size) ==
    LET cs == ChunkLoopLate(SplitParagraphs(t), 1, size, <<>>, <<>>, 0)
    IN  IF cs # <<>> THEN cs ELSE <<t>>

\* mutant: the paragraph that closes a chunk is not carried into the next one
RECURSIVE ChunkLoopDrop(_, _, _, _, _, _)
ChunkLoopDrop(paragraphs, i, size, acc, current_chunk, current_size) ==
    IF i > Len(paragraphs)
    THEN IF current_chunk # <<>>
         THEN Append(acc, JoinParagraphs(current_chunk))
         ELSE acc
    ELSE LET paragraph == paragraphs[i] IN
         IF IsBlank(paragraph)
         THEN ChunkLoopDrop(paragraphs, i + 1, size, acc, current_chunk, current_size)
         ELSE IF current_size + TextLen(paragraph) > size /\ current_chunk # <<>>
              THEN ChunkLoopDrop(paragraphs, i + 1, size,
                                 Append(acc, JoinParagraphs(current_chunk)),
                                 <<>>, 0)
              ELSE ChunkLoopDrop(paragraphs, i + 1, size, acc,
                                 Append(current_chunk, paragraph),
                                 current_size + TextLen(paragraph))

chunk_text_drop(t, size) ==
    LET cs == ChunkLoopDrop(SplitParagraphs(t), 1, size, <<>>, <<>>, 0)
    IN  IF cs # <<>> THEN cs ELSE <<t>>

\* mutant: the closing "chunks if chunks else [text]" is dropped
chunk_text_no_fallback(t, size) ==
    ChunkLoop(SplitParagraphs(t), 1, size, <<>>, <<>>, 0)

chunk_text(t, size) ==
    LET cs == ChunkLoop(SplitParagraphs(t), 1, size, <<>>, <<>>, 0)
    IN  IF cs # <<>> THEN cs ELSE <<t>>

-----------------------------------------------------------------------------
(* embedding_function.py: GeminiEmbeddingFunction.__call__ on one text *)

\* embedding_function.py:37, the characters sent to the service at most
MaxEmbedChars == 8000

\* text[:k]
RECURSIVE TakeChars(_, _)
TakeChars(t, k) ==
    IF t = <<>> \/ k <= 0 THEN <<>>
    ELSE IF Head(t).n <= k
         THEN <<Head(t)>> \o TakeChars(Tail(t), k - Head(t).n)
         ELSE <<[Head(t) EXCEPT !.n = k]>>

Truncate(t) ==
    IF TextLen(t) > MaxEmbedChars THEN TakeChars(t, MaxEmbedChars) ELSE t

\* what genai.embed_content does: it raises ("error"), or it returns an object
\* with an attribute embedding or embeddings, a dictionary with a key embedding
\* (a list, or a dictionary with the key values) or embeddings or neither, or
\* anything else that list() accepts
ResponseKinds ==
    {"error", "obj.embedding", "obj.embeddings", "dict.embedding",
     "dict.embedding.values", "dict.embeddings", "dict.other", "iterable"}

\* the values of a raw vector
RawEntries == {0, 2}

RawVectors == UNION {[1..n -> RawEntries] : n \in 0..(EMBEDDING_DIMENSION + 1)}

RemoteResponses ==
    {[kind |-> "error", raw |-> <<>>]}
        \cup {[kind |-> k, raw |-> v] : k \in ResponseKinds \ {"error"}, v \in RawVectors}

\* mutant: a long vector is not cut
EnsureSizePadOnly(v) ==
    IF Len(v) < EMBEDDING_DIMENSION
    THEN v \o [i \in 1..(EMBEDDING_DIMENSION - Len(v)) |-> 0]
    ELSE v

\* lines 78-82: pad with zeros or cut to EMBEDDING_DIMENSION entries
EnsureSize(v) ==
    IF Len(v) < EMBEDDING_DIMENSION
    THEN v \o [i \in 1..(EMBEDDING_DIMENSION - Len(v)) |-> 0]
    ELSE SubSeq(v, 1, EMBEDDING_DIMENSION)

RECURSIVE SumSquares(_, _)
SumSquares(v, i) == IF i > Len(v) THEN 0 ELSE v[i] * v[i] + SumSquares(v, i + 1)

\* lines 84-87: division by the L2 norm, unless the norm is 0
Normalize(v) ==
    [out |-> "vector", v |-> v,
     n2 |-> IF SumSquares(v, 1) > 0 THEN SumSquares(v, 1) ELSE 1]

\* the embedding of one text.  The call of embed_content is not guarded: its
\* exception leaves __call__; a dictionary with neither key leaves the local
\* variable embedding unbound, which raises as well
Embed(resp) ==
    IF resp.kind \in {"error", "dict.other"} THEN Raised
    ELSE Normalize(EnsureSize(resp.raw))

EmbedTexts == { <<Run("q", 5)>>, <<Run("w", 5), SP, Run("z", 9000)>> }

EmbedCall(t, resp) ==
    /\ embSent' = Truncate(t)
    /\ embRemote' = resp
    /\ embResult' = Embed(resp)
    /\ embFailed' = IF resp.kind = "error"
                    THEN embFailed \cup {[text |-> t, result |-> Embed(resp)]}
                    ELSE embFailed
    /\ UNCHANGED <<last, qdb>>
    /\ UNCHANGED storeVars
    /\ UNCHANGED chunkVars
    /\ UNCHANGED batchVars
    /\ UNCHANGED webVars
    /\ UNCHANGED procVars

\* the embedding function raises inside collection.add or collection.query
\* when the service is unreachable
EmbedRaises(embedUp) ==
    Embed([kind |-> IF embedUp THEN "obj.embedding" ELSE "error", raw |-> <<>>]).out
        = "raised"

-----------------------------------------------------------------------------
(* The vector store of one user: chatbot_api.py over process_document.py *)

\* chunking.py:3, the default chunk_size that process_document relies on
DefaultChunkSize == 1000

\* a metadata key that is absent
NoFolder == "<none>"
NoName == <<>>

\* uploaded file names, character by character
Names == {<<"a", ".", "t">>, <<"a", "_", "t">>, <<"b", ".", "t">>}

FolderNames == {"f"}

\* extracted texts: nothing, one paragraph, two paragraphs that do not fit one
\* chunk
Contents ==
    { <<>>,
      <<Run("s", 400)>>,
      <<Run("x", 600), NL, NL, Run("y", 600)>> }

\* os.path.splitext(file_path)[1]: from the last dot on, unless there is no dot
\* behind the first character
Extension(name) ==
    LET dots == {i \in 2..Len(name) : name[i] = "."}
    IN  IF dots = {} THEN <<>>
        ELSE SubSeq(name, CHOOSE i \in dots : \A j \in dots : j <= i, Len(name))

\* extraction.py:34-38, supported_extensions: ".t" stands for the extensions
\* of the list
SupportedExtensions == {<<".", "t">>}

\* f"This document ({os.path.basename(file_path)}) appears to be empty or
\* could not be processed."
Placeholder(name) ==
    <<Run("This document (", 15)>>
        \o [i \in 1..Len(name) |-> Run(name[i], 1)]
        \o <<Run(") appears to be empty or could not be processed.", 48)>>

\* os.path.basename(file_path).replace(".", "_")
FileIdentifier(name) ==
    [i \in 1..Len(name) |-> IF name[i] = "." THEN "_" ELSE name[i]]

\* mutant: the index of a new chunk continues after the entries already stored
NewDocIdsAfterCount(name, cs, st) ==
    [i \in 1..Len(cs) |-> [doc |-> FileIdentifier(name), idx |-> Len(st) + i - 1]]

\* [f"{file_identifier}_doc_{i}" for i in range(len(chunks))]
NewDocIds(name, cs, st) ==
    [i \in 1..Len(cs) |-> [doc |-> FileIdentifier(name), idx |-> i - 1]]

StoredIds(st) == {st[i].id : i \in 1..Len(st)}

\* collection.add(documents, ids, metadatas): the embedding function runs on
\* the documents first and its exception leaves the collection as it was; an
\* id the collection already holds is refused with an error (engineDup =
\* "raise") or skipped with a warning (engineDup = "skip"), by the engine's
\* version
CollectionAdd(st, entries, embedUp, dup) ==
    LET old == {i \in 1..Len(entries) : entries[i].id \in StoredIds(st)}
    IN  IF EmbedRaises(embedUp) THEN [raised |-> TRUE, store |-> st]
        ELSE IF dup = "raise" /\ old # {} THEN [raised |-> TRUE, store |-> st]
        ELSE [raised |-> FALSE,
              store |-> st \o SelectSeq(entries, LAMBDA e : e.id \notin StoredIds(st))]

\* one more request that writes to the store
Write ==
    /\ nops < MaxOps
    /\ nops' = nops + 1
    /\ UNCHANGED <<engineDup, qdb>>
    /\ UNCHANGED chunkVars
    /\ UNCHANGED embedVars
    /\ UNCHANGED batchVars
    /\ UNCHANGED webVars
    /\ UNCHANGED procVars

\* a request that only reads the store's entries
Read ==
    /\ UNCHANGED <<store, folders, engineDup, nops, qdb>>
    /\ UNCHANGED chunkVars
    /\ UNCHANGED embedVars
    /\ UNCHANGED batchVars
    /\ UNCHANGED webVars
    /\ UNCHANGED procVars

\* auth.py create_folder, behind POST /folders: the store is not touched
CreateFolder(f) ==
    /\ UNCHANGED <<engineDup, nops, qdb>>
    /\ UNCHANGED chunkVars
    /\ UNCHANGED embedVars
    /\ UNCHANGED batchVars
    /\ UNCHANGED webVars
    /\ UNCHANGED procVars
    /\ IF f \in folders
       THEN /\ last' = [NoCall EXCEPT !.op = "create_folder", !.status = "400"]
            /\ UNCHANGED folders
       ELSE /\ last' = [NoCall EXCEPT !.op = "create_folder", !.status = "success"]
            /\ folders' = folders \cup {f}
    /\ UNCHANGED <<collExists, store>>

\* the text process_document chunks: the extracted text, or the placeholder
\* when nothing was extracted
DocumentText(name, content) ==
    IF content = <<>> THEN Placeholder(name) ELSE content

\* chunk_text(text) for every file of the model
DocChunks ==
    [name \in Names, content \in Contents |->
        chunk_text(DocumentText(name, content), DefaultChunkSize)]

\* process_document(file_path, collection_name, metadata): the entries it
\* hands to collection.add
DocumentEntries(name, folder, content, st) ==
    LET cs == DocChunks[name, content]
        ids == NewDocIds(name, cs, st)
        metadata == [document_name |-> name, folder_name |-> folder]
    IN  [i \in 1..Len(cs) |->
            [id |-> ids[i], document |-> cs[i], metadata |-> metadata]]

EntryIds(entries) == [i \in 1..Len(entries) |-> entries[i].id]

\* POST /upload: upload_document
UploadDocument(name, folder, content, embedUp) ==
    /\ Write
    /\ IF folder # NoFolder /\ folder \notin folders
       THEN /\ last' = [NoCall EXCEPT !.op = "upload", !.status = "error"]
            /\ UNCHANGED <<collExists, store>>
       ELSE LET entries == DocumentEntries(name, folder, content, store)
                r == CollectionAdd(store, entries, embedUp, engineDup)
            IN  /\ collExists' = TRUE
                /\ store' = r.store
                /\ last' = [NoCall EXCEPT
                              !.op = "upload",
                              !.status = IF r.raised THEN "error" ELSE "success",
                              !.ids = EntryIds(entries),
                              !.existing = Cardinality(
                                  {i \in 1..Len(entries) :
                                      entries[i].id \in StoredIds(store)})]
    /\ UNCHANGED folders

\* the positions of the entries of a document, in the order of collection.get()
Matches(st, name) == {i \in 1..Len(st) : st[i].metadata.document_name = name}

Min(S) == CHOOSE x \in S : \A y \in S : x <= y

RemoveIds(st, ids) == SelectSeq(st, LAMBDA e : e.id \notin ids)

\* the ids delete_document hands to collection.delete: the loop breaks at the
\* first entry whose document_name matches
DeletedIds(st, name) == {st[Min(Matches(st, name))].id}

\* DELETE /documents/{document_name}: delete_document
DeleteDocument(name) ==
    /\ Write
    /\ IF ~collExists
       THEN /\ last' = [NoCall EXCEPT !.op = "delete_document", !.status = "404"]
            /\ UNCHANGED store
       ELSE IF store = <<>>
       THEN \* the HTTPException(404) is raised inside the try whose handler
            \* turns every Exception into a 500
            /\ last' = [NoCall EXCEPT !.op = "delete_document", !.status = "500"]
            /\ UNCHANGED store
       ELSE IF Matches(store, name) = {}
       THEN /\ last' = [NoCall EXCEPT !.op = "delete_document", !.status = "404"]
            /\ UNCHANGED store
       ELSE /\ store' = RemoveIds(store, DeletedIds(store, name))
            /\ last' = [NoCall EXCEPT !.op = "delete_document", !.status = "200",
                                      !.deleted = 1]
    /\ UNCHANGED <<collExists, folders>>

\* mutant: like delete_document, the first matching entry only
documents_to_delete_first(st, folder) ==
    LET hit == {k \in 1..Len(st) : st[k].metadata.folder_name = folder}
    IN  IF hit = {} THEN {} ELSE {st[Min(hit)].id}

\* the ids delete_folder hands to collection.delete: those of the entries
\* whose metadata.get('folder_name', '') is the folder
documents_to_delete(st, folder) ==
    {st[i].id : i \in {k \in 1..Len(st) : st[k].metadata.folder_name = folder}}

\* DELETE /folders/{folder_name}: delete_folder.  users_collection is not a
\* name of chatbot_api.py: the update of the folder list raises a NameError
\* that the handler of lines 502-504 swallows, so the folder list stays
DeleteFolder(folder) ==
    /\ Write
    /\ IF ~collExists \/ store = <<>>
       THEN /\ last' = [NoCall EXCEPT !.op = "delete_folder", !.status = "200"]
            /\ UNCHANGED store
       ELSE /\ store' = RemoveIds(store, documents_to_delete(store, folder))
            /\ last' = [NoCall EXCEPT
                          !.op = "delete_folder", !.status = "200",
                          !.deleted = Cardinality(documents_to_delete(store, folder))]
    /\ UNCHANGED <<collExists, folders>>

\* collection.get(where=where_filter): the entries that match every key given
WhereFilter(st, folder, name) ==
    SelectSeq(st, LAMBDA e :
        /\ (folder # NoFolder => e.metadata.folder_name = folder)
        /\ (name # NoName => e.metadata.document_name = name))

Documents(entries) == [i \in 1..Len(entries) |-> entries[i].document]

\* chatbot_api.py retrieve_documents: the documents joined by blank lines, or
\* None (here the empty text) when there is none or the engine raised
RetrievedText(st, folder, name, engineRaises) ==
    IF engineRaises \/ WhereFilter(st, folder, name) = <<>>
    THEN <<>>
    ELSE JoinParagraphs(Documents(WhereFilter(st, folder, name)))

\* mutant: the model is asked before the retrieved data is looked at
ChatCallsWithoutData(customer_data) == 1

\* the calls chat makes to the generation service (call_ai_model): none when
\* "not customer_data", else one, whatever the mode
ChatCalls(customer_data) == IF customer_data = <<>> THEN 0 ELSE 1

\* POST /chat: chat.  engineRaises: the vector engine raises inside
\* retrieve_documents, before ("connect") or after ("get") the collection is
\* there; aiOk: the generation service answers
Chat(folder, name, mode, engineRaises, aiOk) ==
    LET customer_data == RetrievedText(store, folder, name, engineRaises # "no")
        n == IF engineRaises # "no" THEN 0
             ELSE Len(WhereFilter(store, folder, name))
    IN
    /\ Read
    /\ collExists' = (collExists \/ engineRaises # "connect")
    /\ last' = [NoCall EXCEPT
                  !.op = "chat",
                  !.mode = mode,
                  !.retrieved = n,
                  !.genCalls = ChatCalls(customer_data),
                  !.status = IF customer_data = <<>> THEN "no relevant documents found"
                             ELSE IF aiOk THEN "answer"
                             ELSE "ai service error"]

\* the filters matter when the engine answers, the outcome of the call to the
\* model when there is something to retrieve
Ask ==
    \E mode \in {"strict", "comprehensive"}, engineRaises \in {"no", "connect", "get"} :
        \E folder \in IF engineRaises = "no" THEN FolderNames \cup {NoFolder}
                       ELSE {NoFolder},
           name \in IF engineRaises = "no" THEN Names \cup {NoName} ELSE {NoName} :
            \E aiOk \in IF RetrievedText(store, folder, name, engineRaises # "no") # <<>>
                         THEN BOOLEAN ELSE {TRUE} :
                Chat(folder, name, mode, engineRaises, aiOk)

-----------------------------------------------------------------------------
(* chatbot_api.py: GET /documents *)

\* f"{doc_name}|{folder}", where an absent folder_name is None and prints as
\* "None"
doc_key(doc_name, folder) ==
    doc_name \o "|" \o (IF folder = NoFolder THEN "None" ELSE folder)

\* the loop over results["metadatas"]
RECURSIVE ListLoop(_, _, _, _)
ListLoop(metadatas, i, seen_documents, documents) ==
    IF i > Len(metadatas) THEN documents
    ELSE LET doc_name == metadatas[i].document_name
             folder == metadatas[i].folder_name
             key == doc_key(doc_name, folder)
         IN  IF key \in seen_documents
             THEN ListLoop(metadatas, i + 1, seen_documents, documents)
             ELSE ListLoop(metadatas, i + 1, seen_documents \cup {key},
                           Append(documents, [name |-> doc_name, folder |-> folder]))

\* the metadata of the entries collection.get returns
Metadatas(entries) == [i \in 1..Len(entries) |-> entries[i].metadata]

\* GET /documents?folder_name=...: get_documents
GetDocuments(folder) ==
    /\ Read
    /\ collExists' = TRUE
    /\ last' = [NoCall EXCEPT
                  !.op = "get_documents",
                  !.status = "200",
                  !.scope = folder,
                  !.documents =
                      ListLoop(Metadatas(WhereFilter(store, folder, NoName)), 1, {}, <<>>)]

\* document and folder names as the user types them
ListNames == {"a", "a|b"}
ListFolders == {NoFolder, "None", "c", "b|c"}

\* collections of at most MaxEntries chunks, each under its own id: files and
\* urls ingested under the names and into the folders of the user's choice
ListStores ==
    UNION { { [i \in 1..n |-> [id |-> i, document |-> <<>>, metadata |-> m[i]]] :
                m \in [1..n -> [document_name : ListNames,
                                folder_name : ListFolders]] } :
            n \in 0..MaxEntries }

-----------------------------------------------------------------------------
(* process_document.py: process_url and process_urls_batch *)

\* urls, character by character
Urls == {<<"h", "/", "a">>, <<"h", "/", "b">>}

\* what fetch_web_content does for a url: it raises ("fetch_error"), or it
\* returns no content ("empty") or a page of one paragraph ("page")
FetchOutcomes == {"fetch_error", "empty", "page"}

\* the web and the embedding service while one url is processed
WebOutcomes == [fetch : FetchOutcomes, embedUp : BOOLEAN]

\* f"This URL ({url}) appears to be empty or could not be processed."
UrlPlaceholder(url) ==
    <<Run("This URL (", 10)>>
        \o [i \in 1..Len(url) |-> Run(url[i], 1)]
        \o <<Run(") appears to be empty or could not be processed.", 48)>>

\* the content process_url chunks
UrlContent(url, fetch) ==
    IF fetch = "empty" THEN UrlPlaceholder(url) ELSE <<Run("p", 300)>>

\* hashlib.md5(url.encode()).hexdigest(): a digest that names the url
url_hash(url) == <<"md5">> \o url

\* content_metadata.get("title", urlparse(url).netloc)
UrlDocumentName(url) == <<"title">> \o url

\* the entries process_url hands to collection.add
UrlEntries(url, fetch) ==
    LET cs == chunk_text(UrlContent(url, fetch), DefaultChunkSize)
        metadata == [document_name |-> UrlDocumentName(url),
                     folder_name |-> "Uncategorized"]
    IN  [i \in 1..Len(cs) |->
            [id |-> [doc |-> url_hash(url), idx |-> i - 1],
             document |-> cs[i], metadata |-> metadata]]

\* mutant: the exception of fetch_web_content is not caught
process_url_uncaught(url, st, out, dup) ==
    IF out.fetch = "fetch_error"
    THEN [result |-> [status |-> "raised", url |-> url, chunks |-> 0],
          store |-> st, created |-> FALSE]
    ELSE LET entries == UrlEntries(url, out.fetch)
             r == CollectionAdd(st, entries, out.embedUp, dup)
         IN  [result |-> [status |-> IF r.raised THEN "error" ELSE "success",
                          url |-> url,
                          chunks |-> IF r.raised THEN 0 ELSE Len(entries)],
              store |-> r.store, created |-> TRUE]

\* process_url(url, collection_name, metadata): every exception ends in the
\* dictionary with status "error"
process_url(url, st, out, dup) ==
    IF out.fetch = "fetch_error"
    THEN [result |-> [status |-> "error", url |-> url, chunks |-> 0],
          store |-> st, created |-> FALSE]
    ELSE LET entries == UrlEntries(url, out.fetch)
             r == CollectionAdd(st, entries, out.embedUp, dup)
         IN  [result |-> [status |-> IF r.raised THEN "error" ELSE "success",
                          url |-> url,
                          chunks |-> IF r.raised THEN 0 ELSE Len(entries)],
              store |-> r.store, created |-> TRUE]

\* mutant: the batch ends at the first url that fails
RECURSIVE BatchLoopAbort(_, _, _, _, _, _, _)
BatchLoopAbort(urls, web, i, st, created, acc, dup) ==
    IF i > Len(urls) THEN [results |-> acc, store |-> st, created |-> created]
    ELSE LET r == process_url(urls[i], st, web[i], dup)
         IN  IF r.result.status = "error"
             THEN [results |-> acc, store |-> st, created |-> created]
             ELSE BatchLoopAbort(urls, web, i + 1, r.store, created \/ r.created,
                                 Append(acc, r.result), dup)

process_urls_batch_abort(urls, web, st, created, dup) ==
    BatchLoopAbort(urls, web, 1, st, created, <<>>, dup)

\* the loop "for url in urls" of process_urls_batch
RECURSIVE BatchLoop(_, _, _, _, _, _, _)
BatchLoop(urls, web, i, st, created, acc, dup) ==
    IF i > Len(urls) THEN [results |-> acc, store |-> st, created |-> created]
    ELSE LET r == process_url(urls[i], st, web[i], dup)
         IN  BatchLoop(urls, web, i + 1, r.store, created \/ r.created,
                       Append(acc, r.result), dup)

\* process_urls_batch(urls, collection_name, metadata)
process_urls_batch(urls, web, st, created, dup) ==
    BatchLoop(urls, web, 1, st, created, <<>>, dup)

\* the background task of POST /process_urls_batch, once
ProcessUrlsBatch(urls, web) ==
    LET r == process_urls_batch(urls, web, store, collExists, engineDup)
    IN  /\ batch_urls = <<>>
        /\ urls # <<>>
        /\ batch_urls' = urls
        /\ batch_web' = web
        /\ results' = r.results
        /\ store' = r.store
        /\ collExists' = r.created
        /\ UNCHANGED <<folders, last, engineDup, nops, qdb>>
        /\ UNCHANGED chunkVars
        /\ UNCHANGED embedVars
        /\ UNCHANGED webVars
        /\ UNCHANGED procVars

-----------------------------------------------------------------------------
(* process_document.py: calls of process_document side by side, in the      *)
(* worker processes that share the database directory                       *)

\* lines 93-134: a call extracts and chunks its file.  The calls are of
\* different files, or of the same file again
BeginIngest(name, content) ==
    /\ Len(writers) < MaxWriters
    /\ \A v \in 1..Len(writers) :
           writers[v].name # name \/ writers[v].content = content
    /\ writers' = Append(writers, [name |-> name, content |-> content,
                                    pc |-> "chunked", status |-> "none"])
    /\ UNCHANGED <<collExists, store, folders, last, engineDup, nops, qdb, tasks>>
    /\ UNCHANGED chunkVars
    /\ UNCHANGED embedVars
    /\ UNCHANGED batchVars
    /\ UNCHANGED webVars

\* lines 138-145: chroma_client.get_or_create_collection
OpenCollection(w) ==
    /\ writers[w].pc = "chunked"
    /\ writers' = [writers EXCEPT ![w].pc = "opened"]
    /\ collExists' = TRUE
    /\ UNCHANGED <<store, folders, last, engineDup, nops, qdb, tasks>>
    /\ UNCHANGED chunkVars
    /\ UNCHANGED embedVars
    /\ UNCHANGED batchVars
    /\ UNCHANGED webVars

\* lines 147-173: the ids, the metadata and collection.add, whose exception
\* leaves the call
AddChunks(w, embedUp) ==
    LET entries == DocumentEntries(writers[w].name, NoFolder, writers[w].content, store)
        r == CollectionAdd(store, entries, embedUp, engineDup)
    IN  /\ writers[w].pc = "opened"
        /\ store' = r.store
        /\ writers' = [writers EXCEPT
                          ![w].pc = "done",
                          ![w].status = IF r.raised THEN "error" ELSE "success"]
        /\ UNCHANGED <<collExists, folders, last, engineDup, nops, qdb, tasks>>
        /\ UNCHANGED chunkVars
        /\ UNCHANGED embedVars
        /\ UNCHANGED batchVars
        /\ UNCHANGED webVars

-----------------------------------------------------------------------------
(* chatbot_api.py: POST /process_url and its background task *)

\* POST /process_url: process_url_endpoint.  The HTTPException(400) for a
\* folder the user does not have is raised inside the try whose handler turns
\* every Exception into a 500; otherwise the task is added and the request is
\* answered before the task runs
ProcessUrlEndpoint(url, folder) ==
    /\ Len(tasks) < MaxTasks
    /\ IF folder # NoFolder /\ folder \notin folders
       THEN /\ last' = [NoCall EXCEPT !.op = "process_url", !.status = "500"]
            /\ UNCHANGED tasks
       ELSE /\ last' = [NoCall EXCEPT !.op = "process_url", !.status = "processing"]
            /\ tasks' = Append(tasks, [url |-> url, state |-> "queued",
                                         result |-> "none", chunks |-> 0])
    /\ UNCHANGED <<collExists, store, folders, engineDup, nops, qdb, writers>>
    /\ UNCHANGED chunkVars
    /\ UNCHANGED embedVars
    /\ UNCHANGED batchVars
    /\ UNCHANGED webVars

\* the event loop takes up a background task after the response of its
\* request went out; process_url never awaits, so no other task is under way
StartTask(i) ==
    /\ tasks[i].state = "queued"
    /\ \A j \in 1..Len(tasks) : tasks[j].state # "running"
    /\ tasks' = [tasks EXCEPT ![i].state = "running"]
    /\ UNCHANGED <<collExists, store, folders, last, engineDup, nops, qdb, writers>>
    /\ UNCHANGED chunkVars
    /\ UNCHANGED embedVars
    /\ UNCHANGED batchVars
    /\ UNCHANGED webVars

\* how a call of process_url leaves its task
TaskState(status) ==
    IF status = "success" THEN "completed"
    ELSE IF status = "error" THEN "failed"
    ELSE "raised"

\* the task runs process_url to its end; out: what the web and the embedding
\* service do meanwhile
RunTask(i, out) ==
    LET r == process_url(tasks[i].url, store, out, engineDup)
    IN  /\ tasks[i].state = "running"
        /\ store' = r.store
        /\ collExists' = (collExists \/ r.created)
        /\ tasks' = [tasks EXCEPT ![i].state = TaskState(r.result.status),
                                  ![i].result = r.result.status,
                                  ![i].chunks = r.result.chunks]
        /\ UNCHANGED <<folders, last, engineDup, nops, qdb, writers>>
        /\ UNCHANGED chunkVars
        /\ UNCHANGED embedVars
        /\ UNCHANGED batchVars
        /\ UNCHANGED webVars

StartSomeTask == \E i \in 1..Len(tasks) : StartTask(i)

RunSomeTask == \E i \in 1..Len(tasks), out \in WebOutcomes : RunTask(i, out)

-----------------------------------------------------------------------------
(* query_documents.py: retrieval over one or all collections, ranking and    *)
(* the generated answer                                                      *)

Max(a, b) == IF a >= b THEN a ELSE b

\* distances and similarities are counted in steps of 1 / DistanceSteps: the
\* distances 0, one step, 1 and one step more than 1
Distances == {0, 1, DistanceSteps, DistanceSteps + 1}

\* mutant: the difference is not clamped
SimilarityUnclamped(distance) == DistanceSteps - distance

\* max(0, 1 - distance)
Similarity(distance) == Max(0, DistanceSteps - distance)

CollNames == <<"c1", "c2", "c3", "c4">>

\* the answers of n documents collection c can give to the query, the nearest
\* first
Hits(c, n) ==
    { [k \in 1..n |-> [doc |-> <<c, k>>, distance |-> d[k]]] :
        d \in {g \in [1..n -> Distances] : \A k \in 1..(n - 1) : g[k] <= g[k + 1]} }

\* the answers of collections 1..n, of at most docs documents together
RECURSIVE HitLists(_, _)
HitLists(n, docs) ==
    IF n = 0 THEN {<<>>}
    ELSE UNION { { Append(hs, h) : hs \in HitLists(n - 1, docs - k), h \in Hits(n, k) } :
                 k \in 0..docs }

\* the databases: at most MaxColls collections that answer with at most
\* MaxDocs documents together, and of which at most one raises when it is
\* queried
QueryDbs ==
    UNION { { [c \in 1..n |-> [name |-> CollNames[c], hits |-> hs[c],
                               raises |-> (c = r)]] :
                hs \in HitLists(n, MaxDocs), r \in 0..n } :
            n \in 0..MaxColls }

\* the (doc, similarity) pairs of one collection, in the engine's order
Scored(hits) ==
    [k \in 1..Len(hits) |->
        [doc |-> hits[k].doc, similarity |-> Similarity(hits[k].distance)]]

RECURSIVE Gather(_, _)
Gather(collections, i) ==
    IF i > Len(collections) THEN <<>>
    ELSE Scored(collections[i].hits) \o Gather(collections, i + 1)

Reverse(xs) == [i \in 1..Len(xs) |-> xs[Len(xs) + 1 - i]]

\* a stable sort by ascending similarity: the elements are inserted first to
\* last, each behind the elements that are not greater
RECURSIVE InsertAsc(_, _)
InsertAsc(sorted, x) ==
    IF sorted = <<>> THEN <<x>>
    ELSE IF Head(sorted).similarity <= x.similarity
         THEN <<Head(sorted)>> \o InsertAsc(Tail(sorted), x)
         ELSE <<x>> \o sorted

RECURSIVE SortAsc(_, _)
SortAsc(xs, i) ==
    IF i > Len(xs) THEN <<>> ELSE InsertAsc(SortAsc(xs, i + 1), xs[Len(xs) + 1 - i])

StableSortAsc(xs) == SortAsc(xs, 1)

\* mutant: the ascending order is turned around at the end only
SortDescUnstable(xs) == Reverse(StableSortAsc(xs))

\* retrieved_docs.sort(key=lambda x: x[1], reverse=True): list.sort turns the
\* list around, sorts it stably in ascending order and turns it around again
SortDesc(xs) == Reverse(StableSortAsc(Reverse(xs)))

Selected(db, collection_name) ==
    IF collection_name = "all" THEN db
    ELSE SelectSeq(db, LAMBDA c : c.name = collection_name)

\* retrieve_documents(query_text, collection_name): any exception (a
\* collection that is not there, a query that raises) is answered by []
retrieve_documents(db, collection_name) ==
    LET collections == Selected(db, collection_name)
    IN  IF collections = <<>> THEN <<>>
        ELSE IF \E i \in 1..Len(collections) : collections[i].raises THEN <<>>
        ELSE SortDesc(Gather(collections, 1))

\* query_documents.py:133
retries == 3

RECURSIVE Pow2(_)
Pow2(k) == IF k = 0 THEN 1 ELSE 2 * Pow2(k - 1)

CallEvent(ok) == [kind |-> "call", ok |-> ok, secs |-> 0]
SleepEvent(secs) == [kind |-> "sleep", ok |-> FALSE, secs |-> secs]

\* mutant: the delay grows by two seconds instead of doubling
RECURSIVE AttemptsLinear(_, _, _)
AttemptsLinear(attempt, outcomes, log) ==
    IF attempt >= retries
    THEN [response |-> "unable to generate", log |-> log]
    ELSE IF outcomes[attempt + 1]
         THEN [response |-> "answer", log |-> Append(log, CallEvent(TRUE))]
         ELSE AttemptsLinear(attempt + 1, outcomes,
                             log \o <<CallEvent(FALSE), SleepEvent(2 * attempt + 1)>>)

generate_response_linear(outcomes) == AttemptsLinear(0, outcomes, <<>>)

\* the loop "for attempt in range(retries)": a call, and after a failed call
\* time.sleep(2 ** attempt)
RECURSIVE Attempts(_, _, _)
Attempts(attempt, outcomes, log) ==
    IF attempt >= retries
    THEN [response |-> "unable to generate", log |-> log]
    ELSE IF outcomes[attempt + 1]
         THEN [response |-> "answer", log |-> Append(log, CallEvent(TRUE))]
         ELSE Attempts(attempt + 1, outcomes,
                       log \o <<CallEvent(FALSE), SleepEvent(Pow2(attempt))>>)

\* generate_response_gemini(prompt); outcomes[k]: the k-th call succeeds
generate_response_gemini(outcomes) == Attempts(0, outcomes, <<>>)

Outcomes == [1..retries -> BOOLEAN]

Calls(log) == Cardinality({i \in 1..Len(log) : log[i].kind = "call"})

\* mutant: the answer is generated before the retrieved documents are looked at
query_answer_eager(retrieved_docs, mode, outcomes) ==
    IF mode = "comprehensive" THEN generate_response_gemini(outcomes)
    ELSE IF retrieved_docs = <<>>
    THEN [response |-> "no relevant documents found", log |-> <<>>]
    ELSE [response |-> "based on the following documents", log |-> <<>>]

\* query_collection after the retrieval: the answer and the calls made for it
query_answer(retrieved_docs, mode, outcomes) ==
    IF retrieved_docs = <<>>
    THEN [response |-> "no relevant documents found", log |-> <<>>]
    ELSE IF mode = "comprehensive" THEN generate_response_gemini(outcomes)
    ELSE [response |-> "based on the following documents", log |-> <<>>]

\* query_collection(query_text, collection_name, mode)
QueryCollection(collection_name, mode, outcomes) ==
    LET retrieved_docs == retrieve_documents(qdb, collection_name)
        answer == query_answer(retrieved_docs, mode, outcomes)
    IN
    /\ Read
    /\ last' = [NoCall EXCEPT
                  !.op = "query_collection",
                  !.mode = mode,
                  !.scope = collection_name,
                  !.results = retrieved_docs,
                  !.retrieved = Len(retrieved_docs),
                  !.genLog = answer.log,
                  !.genCalls = Calls(answer.log),
                  !.status = answer.response]
    /\ UNCHANGED collExists

\* the collections one can ask for: all of them, each one, one that is not
\* there
Scopes == {"all", "missing"} \cup {qdb[c].name : c \in 1..Len(qdb)}

\* the outcomes of the calls matter when calls are made
Query ==
    \E collection_name \in Scopes, mode \in {"strict", "comprehensive"} :
        \E outcomes \in IF /\ mode = "comprehensive"
                           /\ retrieve_documents(qdb, collection_name) # <<>>
                        THEN Outcomes ELSE {[k \in 1..retries |-> TRUE]} :
            QueryCollection(collection_name, mode, outcomes)

-----------------------------------------------------------------------------
(* web_content_fetcher.py: fetch_web_content and the links it follows *)

\* the targets of the links extract_important_links keeps (same domain, no
\* utility page, a text of more than 5 characters), as urljoin writes them
Links == {"http://h/x", "http://h/y", "http://h/z"}

\* what happens when a linked page is requested: requests.get raises
\* ("network_error"), raise_for_status raises ("http_error"), the answer is
\* not text/html ("not_html"), the parsing raises ("parse_error"), or the page
\* is read ("html")
LinkOutcomes == {"html", "not_html", "network_error", "http_error", "parse_error"}

\* lines 162-168: the loop that removes duplicates
RECURSIVE UniqueLoop(_, _, _, _)
UniqueLoop(important_links, i, seen, unique_links) ==
    IF i > Len(important_links) THEN unique_links
    ELSE LET link == important_links[i]
         IN  IF link \in seen
             THEN UniqueLoop(important_links, i + 1, seen, unique_links)
             ELSE UniqueLoop(important_links, i + 1, seen \cup {link},
                             Append(unique_links, link))

\* extract_important_links(soup, base_url, domain), from the kept targets on
extract_important_links(important_links) == UniqueLoop(important_links, 1, {}, <<>>)

\* xs[:k]: the first k elements, or all but the last -k when k is negative
SliceTo(xs, k) ==
    IF k >= 0
    THEN SubSeq(xs, 1, IF k < Len(xs) THEN k ELSE Len(xs))
    ELSE SubSeq(xs, 1, Max(0, Len(xs) + k))

\* f"--- Content from {title} ({link}) ---\n\n{clean_text}\n\n"
LinkedPageContent(link) ==
    <<Run("--- Content from ", 17), Run("title", 5), Run(" (", 2), Run(link, 10),
      Run(") ---", 5), NL, NL, Run("clean_text", 40), NL, NL>>

\* "\n".join(all_linked_content)
RECURSIVE JoinLines(_, _)
JoinLines(xs, i) ==
    IF i > Len(xs) THEN <<>>
    ELSE IF i = Len(xs) THEN xs[i]
    ELSE xs[i] \o <<NL>> \o JoinLines(xs, i + 1)

\* mutant: the loop ends at the first link that raises
RECURSIVE FollowLoopBreak(_, _, _, _, _)
FollowLoopBreak(links_to_follow, linked, i, requests, all_linked_content) ==
    IF i > Len(links_to_follow)
    THEN [requests |-> requests, all_linked_content |-> all_linked_content]
    ELSE LET link == links_to_follow[i]
         IN  IF linked[link] = "html"
             THEN FollowLoopBreak(links_to_follow, linked, i + 1, Append(requests, link),
                                  Append(all_linked_content, LinkedPageContent(link)))
             ELSE IF linked[link] = "not_html"
             THEN FollowLoopBreak(links_to_follow, linked, i + 1, Append(requests, link),
                                  all_linked_content)
             ELSE [requests |-> Append(requests, link),
                   all_linked_content |-> all_linked_content]

follow_page_links_break(links, max_links, linked) ==
    IF links = <<>> THEN [requests |-> <<>>, linked_content |-> <<>>]
    ELSE LET r == FollowLoopBreak(SliceTo(links, max_links), linked, 1, <<>>, <<>>)
         IN  [requests |-> r.requests,
              linked_content |-> JoinLines(r.all_linked_content, 1)]

\* lines 192-239: the loop over links_to_follow.  Every link is requested; a
\* page that is read adds its section, a page that is not text/html and a
\* link that raises add none
RECURSIVE FollowLoop(_, _, _, _, _)
FollowLoop(links_to_follow, linked, i, requests, all_linked_content) ==
    IF i > Len(links_to_follow)
    THEN [requests |-> requests, all_linked_content |-> all_linked_content]
    ELSE LET link == links_to_follow[i]
         IN  IF linked[link] = "html"
             THEN FollowLoop(links_to_follow, linked, i + 1, Append(requests, link),
                             Append(all_linked_content, LinkedPageContent(link)))
             ELSE FollowLoop(links_to_follow, linked, i + 1, Append(requests, link),
                             all_linked_content)

\* follow_page_links(links, domain, max_links): the requests made and the
\* string returned
follow_page_links(links, max_links, linked) ==
    IF links = <<>> THEN [requests |-> <<>>, linked_content |-> <<>>]
    ELSE LET r == FollowLoop(SliceTo(links, max_links), linked, 1, <<>>, <<>>)
         IN  [requests |-> r.requests,
              linked_content |-> JoinLines(r.all_linked_content, 1)]

\* the text of the page itself
MainText == <<Run("text", 60)>>

\* lines 105-111 and 286-292: the metadata of a page
PageMetadata(content_type) ==
    [source |-> "http://h/", domain |-> "h", title |-> "title",
     content_type |-> content_type, source_type |-> "web"]

\* fetch_web_content(url, follow_links, max_links) on the page pg
fetch_web_content(follow_links, max_links, pg) ==
    IF pg.kind = "error"
    THEN [NotFetched EXCEPT !.out = "raised"]
    ELSE IF pg.kind = "pdf"
    THEN [out |-> "returned", content_type |-> "pdf", content |-> MainText,
          metadata |-> PageMetadata("pdf"), requests |-> <<>>]
    ELSE LET links == extract_important_links(pg.important_links)
             r == IF follow_links /\ links # <<>>
                  THEN follow_page_links(links, max_links, pg.linked)
                  ELSE [requests |-> <<>>, linked_content |-> <<>>]
             linked_content == r.linked_content
         IN  IF linked_content # <<>>
             THEN [out |-> "returned", content_type |-> "html",
                   content |-> MainText
                                 \o <<NL, NL, Run("--- LINKED CONTENT ---", 22), NL, NL>>
                                 \o linked_content,
                   metadata |-> PageMetadata("html")
                                  @@ [includes_linked_content |-> TRUE,
                                      linked_pages_count |-> TextLen(linked_content)],
                   requests |-> r.requests]
             ELSE [out |-> "returned", content_type |-> "html", content |-> MainText,
                   metadata |-> PageMetadata("html"), requests |-> r.requests]

\* one call of fetch_web_content
FetchWebContent(follow_links, max_links, pg) ==
    /\ fetch_args' = [follow_links |-> follow_links, max_links |-> max_links]
    /\ page' = pg
    /\ fetched' = fetch_web_content(follow_links, max_links, pg)
    /\ UNCHANGED <<last, qdb, collExists, store, folders, engineDup, nops>>
    /\ UNCHANGED chunkVars
    /\ UNCHANGED embedVars
    /\ UNCHANGED batchVars
    /\ UNCHANGED procVars

\* the kept targets of a page: at most MaxPageLinks links, repeated or not
LinkLists == UNION {[1..n -> Links] : n \in 0..MaxPageLinks}

\* the linked pages: what happens at the links of the page (the others are
\* never requested)
LinkedPages(important_links) ==
    {f \in [Links -> LinkOutcomes] :
        \A l \in Links :
            (\A i \in 1..Len(important_links) : important_links[i] # l) => f[l] = "html"}

\* max_links is any integer of the request: UrlProcessRequest does not
\* constrain it
MaxLinksValues == (-1)..MaxFollow

-----------------------------------------------------------------------------
(* The specifications *)

\* the databases the command line finds beside the service: no collection, or
\* one collection with one document
SampleDbs ==
    { <<>>,
      <<[name |-> CollNames[1],
         hits |-> <<[doc |-> <<1, 1>>, distance |-> 1]>>,
         raises |-> FALSE]>> }

\* the service: one user's store behind the API
InitStore ==
    /\ collExists = FALSE
    /\ store = <<>>
    /\ folders = {}
    /\ last = NoCall
    /\ engineDup \in {"raise", "skip"}
    /\ nops = 0
    /\ QueryIdle
    /\ ChunkIdle
    /\ EmbedIdle
    /\ BatchIdle
    /\ WebIdle
    /\ ProcIdle

NextStore ==
    \/ \E f \in FolderNames : CreateFolder(f)
    \/ \E name \in Names, folder \in FolderNames \cup {NoFolder},
          content \in Contents, embedUp \in BOOLEAN :
            UploadDocument(name, folder, content, embedUp)
    \/ \E name \in Names : DeleteDocument(name)
    \/ \E folder \in FolderNames : DeleteFolder(folder)
    \/ Ask

Spec == InitStore /\ [][NextStore]_vars

\* the two entry points that take a mode: POST /chat over the uploads of a
\* user without folders, and the command line over its database
InitModes ==
    /\ collExists = FALSE
    /\ store = <<>>
    /\ folders = {}
    /\ last = NoCall
    /\ engineDup \in {"raise", "skip"}
    /\ nops = 0
    /\ qdb \in SampleDbs
    /\ ChunkIdle
    /\ EmbedIdle
    /\ BatchIdle
    /\ WebIdle
    /\ ProcIdle

NextModes ==
    \/ \E name \in Names, content \in Contents, embedUp \in BOOLEAN :
            UploadDocument(name, NoFolder, content, embedUp)
    \/ Ask
    \/ Query

SpecModes == InitModes /\ [][NextModes]_vars

\* the command line over any database
InitQuery ==
    /\ qdb \in QueryDbs
    /\ last = NoCall
    /\ StoreIdle
    /\ ChunkIdle
    /\ EmbedIdle
    /\ BatchIdle
    /\ WebIdle
    /\ ProcIdle

NextQuery == Query

SpecQuery == InitQuery /\ [][NextQuery]_vars

\* the embedding function on its own
InitEmbed ==
    /\ EmbedIdle
    /\ BatchIdle
    /\ WebIdle
    /\ ProcIdle
    /\ last = NoCall
    /\ StoreIdle
    /\ QueryIdle
    /\ ChunkIdle

NextEmbed == \E t \in EmbedTexts, resp \in RemoteResponses : EmbedCall(t, resp)

SpecEmbed == InitEmbed /\ [][NextEmbed]_vars

\* a batch of urls into an empty collection
InitBatch ==
    /\ BatchIdle
    /\ WebIdle
    /\ ProcIdle
    /\ collExists = FALSE
    /\ store = <<>>
    /\ folders = {}
    /\ engineDup \in {"raise", "skip"}
    /\ nops = 0
    /\ last = NoCall
    /\ QueryIdle
    /\ ChunkIdle
    /\ EmbedIdle

\* the batch is handed in once
NextBatch ==
    /\ batch_urls = <<>>
    /\ \E n \in 1..MaxUrls :
          \E urls \in [1..n -> Urls], web \in [1..n -> WebOutcomes] :
              ProcessUrlsBatch(urls, web)

SpecBatch == InitBatch /\ [][NextBatch]_vars

\* the listing of any collection
InitList ==
    /\ store \in ListStores
    /\ collExists \in (IF store = <<>> THEN BOOLEAN ELSE {TRUE})
    /\ folders = {}
    /\ engineDup = "skip"
    /\ nops = 0
    /\ last = NoCall
    /\ QueryIdle
    /\ ChunkIdle
    /\ EmbedIdle
    /\ BatchIdle
    /\ WebIdle
    /\ ProcIdle

NextList == \E folder \in ListFolders : GetDocuments(folder)

SpecList == InitList /\ [][NextList]_vars

\* the url ingestion of one user: requests and their background tasks
InitTasks ==
    /\ tasks = <<>>
    /\ writers = <<>>
    /\ collExists = FALSE
    /\ store = <<>>
    /\ folders = {}
    /\ engineDup \in {"raise", "skip"}
    /\ nops = 0
    /\ last = NoCall
    /\ QueryIdle
    /\ ChunkIdle
    /\ EmbedIdle
    /\ BatchIdle
    /\ WebIdle

NextTasks ==
    \/ \E url \in Urls, folder \in FolderNames \cup {NoFolder} :
          ProcessUrlEndpoint(url, folder)
    \/ StartSomeTask
    \/ RunSomeTask

\* a task that was added is started, and a call of process_url returns: its
\* loops are over the chunks and the links of a page, and its requests have
\* timeouts
SpecTasks ==
    /\ InitTasks
    /\ [][NextTasks]_vars
    /\ WF_vars(StartSomeTask)
    /\ WF_vars(RunSomeTask)

\* ingestions into one collection, their steps in any order
InitWriters ==
    /\ writers = <<>>
    /\ tasks = <<>>
    /\ collExists = FALSE
    /\ store = <<>>
    /\ folders = {}
    /\ engineDup \in {"raise", "skip"}
    /\ nops = 0
    /\ last = NoCall
    /\ QueryIdle
    /\ ChunkIdle
    /\ EmbedIdle
    /\ BatchIdle
    /\ WebIdle

NextWriters ==
    \/ \E name \in Names, content \in Contents : BeginIngest(name, content)
    \/ \E w \in 1..Len(writers) : OpenCollection(w)
    \/ \E w \in 1..Len(writers), embedUp \in BOOLEAN : AddChunks(w, embedUp)

SpecWriters == InitWriters /\ [][NextWriters]_vars

\* fetch_web_content on any page
InitWeb ==
    /\ WebIdle
    /\ ProcIdle
    /\ StoreIdle
    /\ last = NoCall
    /\ QueryIdle
    /\ ChunkIdle
    /\ EmbedIdle
    /\ BatchIdle

\* the page is fetched once: a page that cannot be fetched, a pdf, or a html
\* page with its links; what the linked pages do matters when they are
\* followed
NextWeb ==
    /\ fetched = NotFetched
    /\ \/ \E kind \in {"error", "pdf"}, follow_links \in BOOLEAN :
             FetchWebContent(follow_links, 5,
                 [kind |-> kind, important_links |-> <<>>,
                  linked |-> [l \in Links |-> "html"]])
       \/ \E important_links \in LinkLists :
             FetchWebContent(FALSE, 5,
                 [kind |-> "html", important_links |-> important_links,
                  linked |-> [l \in Links |-> "html"]])
       \/ \E important_links \in LinkLists, max_links \in MaxLinksValues :
             \E linked \in LinkedPages(important_links) :
                 FetchWebContent(TRUE, max_links,
                     [kind |-> "html", important_links |-> important_links,
                      linked |-> linked])

SpecWeb == InitWeb /\ [][NextWeb]_vars

-----------------------------------------------------------------------------
(* Properties of the vector store *)

EntrySet(st) == {st[i] : i \in 1..Len(st)}

\* the stored entries of a document, in the order of collection.get()
StoredDoc(st, name) == SelectSeq(st, LAMBDA e : e.metadata.document_name = name)

\* C1: after delete_document(name) succeeds the entries are the prior entries
\* minus exactly those whose document_name is name: every chunk of the document
\* is gone, every chunk of another document is still there.
C1_DeleteRemovesDocument ==
    [][\A name \in Names :
          (/\ last'.op = "delete_document"
           /\ last'.status = "200"
           /\ DeleteDocument(name)) =>
              EntrySet(store') =
                  {e \in EntrySet(store) : e.metadata.document_name # name}]_vars

\* C2: with the embedding service unreachable an ingestion still completes and
\* stores its chunks: the failure is not surfaced to the caller.
C2_EmbeddingFailureNotSurfaced ==
    [][\A name \in Names, folder \in FolderNames \cup {NoFolder},
          content \in Contents :
          (/\ last'.op = "upload"
           /\ (folder = NoFolder \/ folder \in folders)
           /\ UploadDocument(name, folder, content, FALSE)) =>
              /\ last'.status = "success"
              /\ \A i \in 1..Len(last'.ids) : last'.ids[i] \in StoredIds(store')]_vars

\* the collection holds the chunks of this file and nothing else under its name
Ingested(st, name, folder, content) ==
    LET cs == DocChunks[name, content]
        have == StoredDoc(st, name)
    IN  /\ Len(have) = Len(cs)
        /\ {have[i].document : i \in 1..Len(have)} = {cs[i] : i \in 1..Len(cs)}
        /\ \A i \in 1..Len(have) : have[i].metadata.folder_name = folder

\* C7: ingesting again a file the collection holds generates the ids its
\* chunks are stored under, and the number of chunks stored for the document
\* stays what it was after the first ingestion.
C7_ReingestSameIds ==
    [][last'.op = "upload" =>
          \A name \in Names :
              \* an upload of name generates ids of the identifier of name
              (Len(last'.ids) > 0 /\ last'.ids[1].doc = FileIdentifier(name)) =>
                  \A folder \in FolderNames \cup {NoFolder}, content \in Contents :
                      (/\ (folder = NoFolder \/ folder \in folders)
                       /\ Ingested(store, name, folder, content)) =>
                          \A embedUp \in BOOLEAN :
                              UploadDocument(name, folder, content, embedUp) =>
                                  /\ {last'.ids[i] : i \in 1..Len(last'.ids)}
                                         = StoredIds(StoredDoc(store, name))
                                  /\ Len(StoredDoc(store', name))
                                         = Len(StoredDoc(store, name))]_vars

\* a file of two chunks was ingested a second time
C7_Witness ==
    /\ last.op = "upload"
    /\ Len(last.ids) = 2
    /\ last.existing = 2
    /\ \E name \in Names :
          /\ StoredIds(StoredDoc(store, name)) = {last.ids[1], last.ids[2]}
          /\ Len(StoredDoc(store, name)) = 2

\* C9: a request (POST /chat or query_collection, in either mode, the scope
\* "all" over a database without collections included) that retrieved no chunk
\* made no call to the generation service and was answered by the literal "no
\* relevant documents found".
C9_NoGenerationWithoutDocuments ==
    (last.op \in {"chat", "query_collection"} /\ last.retrieved = 0) =>
        (last.genCalls = 0 /\ last.status = "no relevant documents found")

\* query_collection was asked in comprehensive mode for all collections of a
\* database that has none
C9_Witness ==
    /\ last.op = "query_collection"
    /\ last.mode = "comprehensive"
    /\ last.scope = "all"
    /\ qdb = <<>>
    /\ last.retrieved = 0
    /\ last.status = "no relevant documents found"

\* C13: a request in strict mode (POST /chat or query_collection) that
\* retrieved chunks made no call to the generation service and was answered by
\* the retrieved context under the instructive framing; calls are made in
\* comprehensive mode only.
C13_StrictModeMakesNoCall ==
    (last.op \in {"chat", "query_collection"} /\ last.retrieved > 0) =>
        /\ last.mode = "strict" =>
               /\ last.genCalls = 0
               /\ last.status = "based on the following documents"
        /\ last.genCalls > 0 => last.mode = "comprehensive"

\* C14: delete_document(name) on a collection without an entry of that
\* document, an existing but empty collection included, answers 404 and leaves
\* the entries as they were.
C14_DeleteAbsentIsNotFound ==
    [][\A name \in Names :
          (/\ last'.op = "delete_document"
           /\ Matches(store, name) = {}
           /\ DeleteDocument(name)) =>
              (last'.status = "404" /\ store' = store)]_vars

C19_SuccessStoresAChunk ==
    [][(last'.op = "upload" /\ last'.status = "success") =>
          \A name \in Names :
              (Len(last'.ids) > 0 /\ last'.ids[1].doc = FileIdentifier(name)) =>
                  \A folder \in FolderNames \cup {NoFolder}, content \in Contents :
                      UploadDocument(name, folder, content, TRUE) =>
                          /\ StoredDoc(store', name) # <<>>
                          /\ \A e \in EntrySet(store') :
                                 e.metadata.document_name \in Names]_vars

\* C20: an upload of a file whose extension is not a supported one answers
\* with an error and writes nothing to the collection.
C20_UnsupportedFormatRejected ==
    [][last'.op = "upload" =>
          \A name \in {n \in Names : Extension(n) \notin SupportedExtensions} :
              \A folder \in FolderNames \cup {NoFolder}, content \in Contents,
                 embedUp \in BOOLEAN :
                  UploadDocument(name, folder, content, embedUp) =>
                      (last'.status = "error" /\ store' = store)]_vars

\* C21: a request that only reads (POST /chat, GET /documents, the
\* multi-collection query) leaves the existence of the collection and its
\* entries as they were: a collection comes into being by a write only.
C21_ReadsCreateNothing ==
    [][last'.op \in {"chat", "get_documents", "query_collection"} =>
          (collExists' = collExists /\ store' = store)]_vars

\* C28: the chunk ids an upload generates are held by no stored entry of a
\* document that differs from the uploaded one in file name or in folder, so
\* no upload collides with a chunk of another document.
C28_IdsSeparateDocuments ==
    [][last'.op = "upload" =>
          \A name \in Names :
              (Len(last'.ids) > 0 /\ last'.ids[1].doc = FileIdentifier(name)) =>
                  \A folder \in FolderNames \cup {NoFolder}, content \in Contents,
                     embedUp \in BOOLEAN :
                      UploadDocument(name, folder, content, embedUp) =>
                          \A e \in EntrySet(store) :
                              (\/ e.metadata.document_name # name
                               \/ e.metadata.folder_name # folder) =>
                                  e.id \notin {last'.ids[i] : i \in 1..Len(last'.ids)}]_vars

\* C29: after an upload that answers success, the chunks stored under the
\* name of the file are the chunks of the content just uploaded, in their
\* order: no chunk of an earlier version is left, under a reused id or under a
\* higher index.
C29_ReingestReplaces ==
    [][(last'.op = "upload" /\ last'.status = "success") =>
          \A name \in Names :
              (Len(last'.ids) > 0 /\ last'.ids[1].doc = FileIdentifier(name)) =>
                  \A folder \in FolderNames \cup {NoFolder}, content \in Contents :
                      UploadDocument(name, folder, content, TRUE) =>
                          Documents(StoredDoc(store', name))
                              = DocChunks[name, content]]_vars

\* C30: after delete_folder(f) answered with its success message, f is not in
\* the user's folder list and no entry of the collection has the folder_name
\* f.
C30_FolderGoneAfterDelete ==
    [][\A folder \in FolderNames :
          (/\ last'.op = "delete_folder"
           /\ last'.status = "200"
           /\ DeleteFolder(folder)) =>
              /\ folder \notin folders'
              /\ \A e \in EntrySet(store') : e.metadata.folder_name # folder]_vars

-----------------------------------------------------------------------------
(* Properties of the document listing *)

\* the (document_name, folder_name) pairs of the entries the listing is about
ListedPairs(st, folder) ==
    {[name |-> e.document_name, folder |-> e.folder_name] :
        e \in {Metadatas(WhereFilter(st, folder, NoName))[i] :
                  i \in 1..Len(WhereFilter(st, folder, NoName))}}

\* C16: the listing holds every (document_name, folder_name) pair of the
\* entries, each exactly once.
C16_ListingDeduplicatesByPair ==
    last.op = "get_documents" =>
        /\ {last.documents[i] : i \in 1..Len(last.documents)}
               = ListedPairs(store, last.scope)
        /\ \A i \in 1..Len(last.documents), j \in 1..Len(last.documents) :
               last.documents[i] = last.documents[j] => i = j

-----------------------------------------------------------------------------
(* Properties of the batch of urls *)

\* the positions before i at which the same url was stored
StoredBefore(i) ==
    {j \in 1..(i - 1) :
        /\ batch_urls[j] = batch_urls[i]
        /\ results[j].status = "success"}

\* C12: process_urls_batch returns one entry per url, in the order of the
\* urls and carrying the url; a url whose fetch or embedding fails has the
\* status "error", and every other url is processed and reported whatever
\* happened to the urls before it: it has the status "success" and its chunks
\* are in the collection (a url the batch stored before is refused by an engine
\* that refuses ids it holds).
C12_BatchReportsEveryUrl ==
    /\ Len(results) = Len(batch_urls)
    /\ \A i \in 1..Len(batch_urls) :
          /\ results[i].url = batch_urls[i]
          /\ results[i].status \in {"success", "error"}
          /\ (batch_web[i].fetch = "fetch_error" \/ ~batch_web[i].embedUp) =>
                 results[i].status = "error"
          /\ (/\ batch_web[i].fetch # "fetch_error"
              /\ batch_web[i].embedUp
              /\ (engineDup = "skip" \/ StoredBefore(i) = {})) =>
                 /\ results[i].status = "success"
                 /\ \E k \in 1..Len(store) : store[k].id.doc = url_hash(batch_urls[i])

\* a batch of three urls of which the second failed and the third was stored
C12_Witness ==
    /\ Len(batch_urls) = 3
    /\ Len(results) = 3
    /\ results[1].status = "success"
    /\ results[2].status = "error"
    /\ results[2].url = batch_urls[2]
    /\ results[3].status = "success"

-----------------------------------------------------------------------------
(* Properties of ingestions side by side *)

\* C27: when ingestions of different files, or of the same file twice, have
\* run side by side into one collection in any order of their steps, the
\* collection holds one entry per chunk id, and for every file whose
\* ingestion returned normally each of its chunks under its id, with its text
\* and its document_name.
C27_ConcurrentWritersKeepAll ==
    (\A w \in 1..Len(writers) : writers[w].pc = "done") =>
        /\ \A i \in 1..Len(store), j \in 1..Len(store) :
               store[i].id = store[j].id => i = j
        /\ \A w \in 1..Len(writers) :
               writers[w].status = "success" =>
                   LET cs == DocChunks[writers[w].name, writers[w].content]
                   IN  \A i \in 1..Len(cs) :
                           \E k \in 1..Len(store) :
                               /\ store[k].id = [doc |-> FileIdentifier(writers[w].name),
                                                  idx |-> i - 1]
                               /\ store[k].document = cs[i]
                               /\ store[k].metadata.document_name = writers[w].name

-----------------------------------------------------------------------------
(* Properties of the background tasks *)

TerminalStates == {"completed", "failed"}

\* the steps of a task: queued, then running, then completed or failed, and
\* nothing after that; the request that adds a task is answered "processing"
\* while the task is queued; a task that fails leaves the collection's
\* entries as they were
C22_TaskSteps ==
    [][/\ Len(tasks') >= Len(tasks)
       /\ (last'.op = "process_url" /\ last'.status = "processing"
               /\ Len(tasks') > Len(tasks)) =>
              tasks'[Len(tasks')].state = "queued"
       /\ Len(tasks') > Len(tasks) => last'.status = "processing"
       /\ \A i \in 1..Len(tasks) :
              /\ tasks'[i].url = tasks[i].url
              /\ \/ tasks'[i].state = tasks[i].state
                 \/ tasks[i].state = "queued" /\ tasks'[i].state = "running"
                 \/ tasks[i].state = "running" /\ tasks'[i].state \in TerminalStates
              /\ (tasks[i].state = "running" /\ tasks'[i].state = "failed") =>
                     store' = store
              /\ tasks[i].state \in {"queued"} \cup TerminalStates =>
                     (tasks'[i].state = tasks[i].state \/ store' = store)]_vars

\* every task that was added reaches completed or failed
C22_TaskEnds ==
    \A i \in 1..MaxTasks :
        (Len(tasks) >= i) ~> (Len(tasks) >= i /\ tasks[i].state \in TerminalStates)

\* C22: POST /process_url is answered "processing" before its task runs, and
\* every task goes from queued to running to exactly one of completed and
\* failed: it gets there, stays there, never ends with an exception, and a
\* task that failed added no chunk to the collection.
C22_TaskLifecycle == C22_TaskSteps /\ C22_TaskEnds

\* one task failed and left the collection alone, another one completed and
\* stored its chunks
C22_Witness ==
    \E i \in 1..Len(tasks), j \in 1..Len(tasks) :
        /\ tasks[i].state = "failed"
        /\ tasks[j].state = "completed"
        /\ tasks[j].chunks > 0
        /\ Len(store) = tasks[j].chunks

-----------------------------------------------------------------------------
(* Properties of the web fetcher *)

\* the position at which a link is first seen among the kept targets
FirstSeenAt(link) ==
    Min({i \in 1..Len(page.important_links) : page.important_links[i] = link})

\* the links kept on the page
KeptLinks == {page.important_links[i] : i \in 1..Len(page.important_links)}

\* the links whose section the content holds, in the order of the sections
SectionLinks(content) ==
    LET marks == SelectSeq(content, LAMBDA r : r.c \in Links)
    IN  [i \in 1..Len(marks) |-> marks[i].c]

\* C23: the linked pages requested for a page are the kept targets without
\* their repetitions, in the order in which they are first seen, cut to the
\* first max_links: no link is requested twice, the requests follow the
\* first occurrences, and at most max_links pages are requested (none when
\* max_links is not positive).
C23_LinksFollowed ==
    (fetched.out = "returned" /\ page.kind = "html" /\ fetch_args.follow_links) =>
        LET reqs == fetched.requests
            max_links == fetch_args.max_links
        IN  /\ \A i \in 1..Len(reqs), j \in 1..Len(reqs) : reqs[i] = reqs[j] => i = j
            /\ \A i \in 1..Len(reqs) : reqs[i] \in KeptLinks
            /\ \A i \in 1..Len(reqs), j \in 1..Len(reqs) :
                   i < j => FirstSeenAt(reqs[i]) < FirstSeenAt(reqs[j])
            /\ \A l \in KeptLinks :
                   (\E i \in 1..Len(reqs) : FirstSeenAt(l) < FirstSeenAt(reqs[i])) =>
                       \E i \in 1..Len(reqs) : reqs[i] = l
            /\ Len(reqs) <= Max(0, max_links)
            /\ Len(reqs) < max_links => Len(reqs) = Cardinality(KeptLinks)

\* C24: a linked page that fails (the request raises, the status is not 2xx,
\* the parsing raises) adds no section and stops nothing: every link of the
\* list is requested, the sections of the pages that were read stand in the
\* order of the links, and fetch_web_content returns the content of the page
\* itself.
C24_LinkFailureSwallowed ==
    (fetched.out # "none" /\ page.kind = "html") =>
        /\ fetched.out = "returned"
        /\ Len(fetched.content) >= Len(MainText)
        /\ SubSeq(fetched.content, 1, Len(MainText)) = MainText
        /\ fetch_args.follow_links =>
               LET links_to_follow ==
                       SliceTo(extract_important_links(page.important_links),
                               fetch_args.max_links)
               IN  /\ fetched.requests = links_to_follow
                   /\ SectionLinks(fetched.content)
                          = SelectSeq(links_to_follow, LAMBDA l : page.linked[l] = "html")

\* three links were followed, the second failed, the first and the third
\* have their sections
C24_Witness ==
    /\ fetched.out = "returned"
    /\ Len(fetched.requests) = 3
    /\ page.linked[fetched.requests[1]] = "html"
    /\ page.linked[fetched.requests[2]] \in {"network_error", "http_error", "parse_error"}
    /\ page.linked[fetched.requests[3]] = "html"
    /\ SectionLinks(fetched.content) = <<fetched.requests[1], fetched.requests[3]>>

\* C25: when the content holds sections of linked pages, the metadata has
\* includes_linked_content = TRUE and linked_pages_count is the number of
\* those sections, between 1 and max_links; when it holds none, neither key
\* is set (looked at for a max_links that is not negative).
C25_LinkedPagesCounted ==
    (fetched.out = "returned" /\ page.kind = "html" /\ fetch_args.max_links >= 0) =>
        LET appended == Len(SectionLinks(fetched.content))
            metadata == fetched.metadata
        IN  IF appended > 0
            THEN /\ "includes_linked_content" \in DOMAIN metadata
                 /\ "linked_pages_count" \in DOMAIN metadata
                 /\ metadata.includes_linked_content = TRUE
                 /\ metadata.linked_pages_count = appended
                 /\ 1 <= metadata.linked_pages_count
                 /\ metadata.linked_pages_count <= fetch_args.max_links
            ELSE /\ "includes_linked_content" \notin DOMAIN metadata
                 /\ "linked_pages_count" \notin DOMAIN metadata

-----------------------------------------------------------------------------
(* Properties of the embedding function *)

\* C3: the calls of the embedding function whose remote call failed returned a
\* vector, and two of them on the same text returned the same vector.
C3_FallbackDeterministic ==
    \A a \in embFailed, b \in embFailed :
        a.text = b.text => (a.result.out = "vector" /\ a.result = b.result)

\* the response shapes the service is documented to answer with
ListedShapes ==
    {"obj.embedding", "obj.embeddings", "dict.embedding", "dict.embeddings"}

\* C17: for an object with a single embedding or a list of embeddings and for
\* a mapping with either key, whatever the length of the raw vector, the
\* vector returned has exactly EMBEDDING_DIMENSION entries: the entries of the
\* raw vector (before the division by the norm), cut after the first
\* EMBEDDING_DIMENSION or followed by zeros.
C17_ExactDimension ==
    embRemote.kind \in ListedShapes =>
        /\ embResult.out = "vector"
        /\ Len(embResult.v) = EMBEDDING_DIMENSION
        /\ \A i \in 1..EMBEDDING_DIMENSION :
               embResult.v[i] = IF i <= Len(embRemote.raw) THEN embRemote.raw[i] ELSE 0

\* a list of embeddings whose first vector is longer than EMBEDDING_DIMENSION
\* and ends with an entry that is not zero
C17_Witness ==
    /\ embRemote.kind = "obj.embeddings"
    /\ Len(embRemote.raw) > EMBEDDING_DIMENSION
    /\ embRemote.raw[Len(embRemote.raw)] # 0
    /\ embResult.out = "vector"
    /\ Len(embResult.v) = EMBEDDING_DIMENSION

-----------------------------------------------------------------------------
(* Properties of the command line's retrieval and generation *)

\* the position of a result in the concatenation of the per-collection results
PositionIn(xs, doc) == CHOOSE i \in 1..Len(xs) : xs[i].doc = doc

\* C8: when no queried collection raises, the results of retrieve_documents are
\* the concatenation of the per-collection results (collection order, then
\* engine order) rearranged so that the similarity never increases, and two
\* results of equal similarity keep the order they had in the concatenation.
C8_StableDescendingSort ==
    (/\ last.op = "query_collection"
     /\ \A c \in 1..Len(qdb) :
            (last.scope \in {"all", qdb[c].name}) => ~qdb[c].raises) =>
        LET before == Gather(Selected(qdb, last.scope), 1)
            after == last.results
        IN  /\ Len(after) = Len(before)
            /\ {after[i] : i \in 1..Len(after)} = {before[i] : i \in 1..Len(before)}
            /\ \A i \in 1..Len(after), j \in 1..Len(after) :
                   i < j =>
                     /\ after[i].similarity >= after[j].similarity
                     /\ after[i].similarity = after[j].similarity =>
                            PositionIn(before, after[i].doc)
                                < PositionIn(before, after[j].doc)

\* the results of two collections were rearranged, and two results of equal
\* similarity from different collections are among them
C8_Witness ==
    /\ last.op = "query_collection"
    /\ last.scope = "all"
    /\ Len(last.results) >= 3
    /\ last.results # Gather(qdb, 1)
    /\ \E i \in 1..Len(last.results), j \in 1..Len(last.results) :
          /\ i < j
          /\ last.results[i].similarity = last.results[j].similarity
          /\ last.results[i].doc[1] # last.results[j].doc[1]

\* C11: a retrieval over all collections in which one collection raises still
\* returns the results of the collections that do not raise.
C11_PartialResultsOnFailure ==
    (/\ last.op = "query_collection"
     /\ last.scope = "all"
     /\ \E c \in 1..Len(qdb) : qdb[c].raises) =>
        LET healthy == SelectSeq(qdb, LAMBDA c : ~c.raises)
            expected == Gather(healthy, 1)
        IN  {last.results[i] : i \in 1..Len(last.results)}
                = {expected[i] : i \in 1..Len(expected)}

\* the distance the engine reported for a result
ReportedDistance(doc) == qdb[doc[1]].hits[doc[2]].distance

\* C18: every similarity of a result is max(0, 1 - distance) of the distance
\* the engine reported: it lies in [0, 1], it is 1 for the distance 0 and 0
\* for every distance of 1 or more.
C18_SimilarityClamped ==
    last.op = "query_collection" =>
        \A i \in 1..Len(last.results) :
            LET d == ReportedDistance(last.results[i].doc)
                sim == last.results[i].similarity
            IN  /\ sim >= 0 /\ sim <= DistanceSteps
                /\ d = 0 => sim = DistanceSteps
                /\ d >= DistanceSteps => sim = 0
                /\ d < DistanceSteps => sim = DistanceSteps - d

\* results at the distances 0, 1 and more than 1
C18_Witness ==
    /\ last.op = "query_collection"
    /\ \E i \in 1..Len(last.results), j \in 1..Len(last.results),
          k \in 1..Len(last.results) :
          /\ ReportedDistance(last.results[i].doc) = 0
          /\ last.results[i].similarity = DistanceSteps
          /\ ReportedDistance(last.results[j].doc) = DistanceSteps
          /\ last.results[j].similarity = 0
          /\ ReportedDistance(last.results[k].doc) > DistanceSteps
          /\ last.results[k].similarity = 0

\* the seconds slept, in their order
Sleeps(log) == SelectSeq(log, LAMBDA e : e.kind = "sleep")

\* C10: generate_response_gemini calls the generation service at most 3 times;
\* a successful call is the last event and its answer is returned; every
\* failed call is followed by a sleep and each sleep is twice the one before;
\* after 3 failed calls the literal failure message is returned.
C10_RetryWithBackoff ==
    (last.op = "query_collection" /\ last.genLog # <<>>) =>
        LET log == last.genLog
            failed == {i \in 1..Len(log) : log[i].kind = "call" /\ ~log[i].ok}
        IN  /\ Calls(log) <= 3
            /\ \A i \in 1..Len(log) :
                   (log[i].kind = "call" /\ log[i].ok) =>
                       (i = Len(log) /\ last.status = "answer")
            /\ \A i \in failed : i < Len(log) /\ log[i + 1].kind = "sleep"
            /\ \A k \in 1..Len(Sleeps(log)) :
                   Sleeps(log)[k].secs =
                       IF k = 1 THEN 1 ELSE 2 * Sleeps(log)[k - 1].secs
            /\ Cardinality(failed) = 3 <=> last.status = "unable to generate"
            /\ last.status \in {"answer", "unable to generate"}

\* three calls failed one after the other
C10_Witness ==
    /\ last.op = "query_collection"
    /\ Calls(last.genLog) = 3
    /\ Len(Sleeps(last.genLog)) = 3
    /\ last.status = "unable to generate"

-----------------------------------------------------------------------------
(* The chunker on its own: any text, any chunk size *)

Alphabet == {NL, SP, Run("a", 1), Run("b", 3)}

Texts == UNION {[1..n -> Alphabet] : n \in 0..MaxTextLen}

InitChunk ==
    /\ text \in Texts
    /\ chunk_size \in 1..MaxChunkSize
    /\ chunks = <<>>
    /\ chunked = FALSE
    /\ StoreIdle
    /\ last = NoCall
    /\ QueryIdle
    /\ EmbedIdle
    /\ BatchIdle
    /\ WebIdle
    /\ ProcIdle

ChunkText ==
    /\ ~chunked
    /\ chunks' = chunk_text(text, chunk_size)
    /\ chunked' = TRUE
    /\ UNCHANGED <<text, chunk_size, last, qdb>>
    /\ UNCHANGED storeVars
    /\ UNCHANGED embedVars
    /\ UNCHANGED batchVars
    /\ UNCHANGED webVars
    /\ UNCHANGED procVars

NextChunk == ChunkText

SpecChunk == InitChunk /\ [][NextChunk]_vars

-----------------------------------------------------------------------------
(* process_document on a plain-text file of 2500 characters *)

\* the lengths of the paragraphs before the last one
ParagraphLengths == {100, 500, 998, 1000}

RECURSIVE SumSeq(_, _)
SumSeq(ls, i) == IF i > Len(ls) THEN 0 ELSE ls[i] + SumSeq(ls, i + 1)

\* the paragraph lengths of a text of 2500 characters in k paragraphs joined
\* by blank lines: the last paragraph takes what is left
ScenarioLengths(k) ==
    { Append(ls, 2500 - 2 * (k - 1) - SumSeq(ls, 1)) :
        ls \in {l \in [1..(k - 1) -> ParagraphLengths] :
                   SumSeq(l, 1) + 2 * (k - 1) < 2500} }

\* what extract_text_from_txt reads from the file: texts of 2500 characters
\* in 1 to MaxParagraphs paragraphs
ScenarioTexts ==
    { JoinParagraphs([i \in 1..Len(ls) |-> <<Run("p", ls[i])>>]) :
        ls \in UNION {ScenarioLengths(k) : k \in 1..MaxParagraphs} }

\* process_document calls chunk_text(text): chunk_size is the default
InitScenario ==
    /\ text \in ScenarioTexts
    /\ chunk_size = DefaultChunkSize
    /\ chunks = <<>>
    /\ chunked = FALSE
    /\ StoreIdle
    /\ last = NoCall
    /\ QueryIdle
    /\ EmbedIdle
    /\ BatchIdle
    /\ WebIdle
    /\ ProcIdle

NextScenario == ChunkText

SpecScenario == InitScenario /\ [][NextScenario]_vars

\* C26: a plain-text document of 2500 characters ingested with the chunk size
\* 1000 gives exactly 3 chunks, each but the last at most 1000 characters
\* long, whatever its paragraphs are.
C26_ThreeChunks ==
    (chunked /\ TextLen(text) = 2500 /\ chunk_size = 1000) =>
        /\ Len(chunks) = 3
        /\ \A i \in 1..(Len(chunks) - 1) : TextLen(chunks[i]) <= 1000

-----------------------------------------------------------------------------
(* Properties of the chunker *)

NonBlankParagraphs(t) == SelectSeq(SplitParagraphs(t), LAMBDA p : ~IsBlank(p))

HasNonBlank(t) == NonBlankParagraphs(t) # <<>>

\* the paragraphs of a sequence of chunks, each chunk split on blank lines, in
\* chunk order
RECURSIVE ParagraphsFrom(_, _)
ParagraphsFrom(cs, i) ==
    IF i > Len(cs) THEN <<>>
    ELSE SplitParagraphs(cs[i]) \o ParagraphsFrom(cs, i + 1)

ParagraphsOfChunks(cs) == ParagraphsFrom(cs, 1)

\* the length of a chunk without the separators that join its paragraphs
ParagraphSum(c) == TextLen(c) - 2 * (Len(SplitParagraphs(c)) - 1)

OneOversizedParagraph(c) ==
    Len(SplitParagraphs(c)) = 1 /\ TextLen(c) > chunk_size

\* C4 as stated: every chunk is at most chunk_size characters long, separators
\* counted, unless it is one paragraph that is itself longer than chunk_size.
C4_ChunkLengthBound ==
    chunked =>
        \A i \in 1..Len(chunks) :
            TextLen(chunks[i]) <= chunk_size \/ OneOversizedParagraph(chunks[i])

\* C4 amended: for a text with a non-blank paragraph, the paragraphs of every
\* chunk sum to at most chunk_size characters (the separators are not counted,
\* so the chunk is at most chunk_size + 2 * (paragraphs - 1) long), unless the
\* chunk is one paragraph that is itself longer than chunk_size.
C4_ParagraphSumBound ==
    (chunked /\ HasNonBlank(text)) =>
        \A i \in 1..Len(chunks) :
            ParagraphSum(chunks[i]) <= chunk_size \/ OneOversizedParagraph(chunks[i])

\* a chunk of two paragraphs that fills chunk_size exactly, so that its
\* separator takes it over the limit
C4_Witness ==
    /\ chunked
    /\ \E i \in 1..Len(chunks) :
          /\ Len(SplitParagraphs(chunks[i])) = 2
          /\ ParagraphSum(chunks[i]) = chunk_size
          /\ TextLen(chunks[i]) > chunk_size

\* C5: chunk_text never returns an empty sequence, and for the empty string it
\* returns the one-element sequence holding the empty string.
C5_NeverEmpty ==
    chunked => /\ Len(chunks) >= 1
               /\ (text = <<>> => chunks = << <<>> >>)

C5_Witness == chunked /\ text = <<>> /\ chunks = << <<>> >>

\* C6 as stated: for every text, the paragraphs of the chunks read in chunk
\* order are exactly the non-blank paragraphs of the text in their order.
C6_ParagraphsPreserved ==
    chunked => ParagraphsOfChunks(chunks) = NonBlankParagraphs(text)

\* C6 amended: for every text that has a non-blank paragraph, the paragraphs of
\* the chunks read in chunk order are exactly the non-blank paragraphs of the
\* text in their order; a text without one comes back verbatim as one chunk.
C6_NonBlankParagraphsPreserved ==
    chunked =>
        IF HasNonBlank(text)
        THEN ParagraphsOfChunks(chunks) = NonBlankParagraphs(text)
        ELSE chunks = <<text>>

\* two chunks out of a text that also holds a blank paragraph
C6_Witness ==
    /\ chunked
    /\ Len(chunks) >= 2
    /\ Len(SplitParagraphs(text)) > Len(NonBlankParagraphs(text))

====
